---------------------------- MODULE Spec2Model ----------------------------
(***************************************************************************)
(* A model of the hybrid BM25 + vector retrieval service of                *)
(* src/rag/chromadb_api.py: the process-wide lexical cache                 *)
(* (_bm25_index, _documents_cache), the lazily loaded embedding model and  *)
(* collection handle, and the /query request handler with the functions it *)
(* calls (build_where_clause, build_bm25_index, rrf_merge, filter_by_asset,*)
(* hybrid_search).                                                         *)
(*                                                                         *)
(* Strings are sequences of characters, each character a TLA+ string, so   *)
(* that strip, lower, upper, substring tests and the tokenizer are         *)
(* computed and not assumed.  The two CJK ideographs of the alphabet are   *)
(* written "zhong" and "wen".                                              *)
(*                                                                         *)
(* An optional value is a sequence of length at most one: None is <<>> and *)
(* a value v that is present is Some(v) = <<v>>.  An optional string or    *)
(* list is the string or list itself with None as the empty one, which the *)
(* code does not tell apart: it tests such values for truth only.          *)
(***************************************************************************)
EXTENDS Integers, Sequences, FiniteSets, TLC

None == <<>>
Some(v) == <<v>>
\* a string or list that is neither None nor empty
Truthy(s) == s # <<>>

(***************************************************************************)
(* Bounds of the model (not program constants).                            *)
(***************************************************************************)
\* the largest "limit" a request asks for
MaxLimit == 2
\* how many documents the ingestion pipeline adds while the service runs
MaxIngest == 1
\* the longest ranked list handed to rrf_merge on its own
MaxRank == 2
\* the largest RRF constant tried beside the program's own
MaxK == 2
\* the longest result list handed to the asset stage on its own
MaxResults == 3
\* the number of requests served at the same time
NumThreads == 2
\* the longest text handed to the tokenizer on its own
MaxText == 4

(***************************************************************************)
(* Program constants.                                                      *)
(***************************************************************************)
\* rrf_merge(..., k=60)
RRF_K == 60
\* collection.get(limit=100): the sample of the fuzzy handle match
SAMPLE_LIMIT == 100
\* a viewpoint is cut to 500 characters (497 and "...")
VIEWPOINT_MAX == 500
VIEWPOINT_CUT == 497

(***************************************************************************)
(* Strings.                                                                *)
(***************************************************************************)
LOWERCASE == <<"a", "b", "c", "d", "e", "f", "g", "h", "i", "j", "k", "l", "m",
               "n", "o", "p", "q", "r", "s", "t", "u", "v", "w", "x", "y", "z">>
UPPERCASE == <<"A", "B", "C", "D", "E", "F", "G", "H", "I", "J", "K", "L", "M",
               "N", "O", "P", "Q", "R", "S", "T", "U", "V", "W", "X", "Y", "Z">>

\* one character's lower and upper case, letters only
LowerMap == [c \in {UPPERCASE[i] : i \in DOMAIN UPPERCASE} |->
                LOWERCASE[CHOOSE i \in DOMAIN UPPERCASE : UPPERCASE[i] = c]]
UpperMap == [c \in {LOWERCASE[i] : i \in DOMAIN LOWERCASE} |->
                UPPERCASE[CHOOSE i \in DOMAIN LOWERCASE : LOWERCASE[i] = c]]

LowerChar(c) == IF c \in DOMAIN LowerMap THEN LowerMap[c] ELSE c
UpperChar(c) == IF c \in DOMAIN UpperMap THEN UpperMap[c] ELSE c

\* str.lower(), str.upper()
Lower(s) == [i \in 1..Len(s) |-> LowerChar(s[i])]
Upper(s) == [i \in 1..Len(s) |-> UpperChar(s[i])]

IsSpace(c) == c = " "

\* characters matched by \w (letters, digits, underscore and, for a Python 3
\* str pattern, CJK ideographs as well)
IsCJK(c) == c \in {"zhong", "wen"}
IsWordChar(c) == ~IsSpace(c) /\ c \notin {",", ".", "[", "]", "!", "\""}

\* str.strip()
RECURSIVE LStrip(_)
LStrip(s) == IF s # <<>> /\ IsSpace(Head(s)) THEN LStrip(Tail(s)) ELSE s
RECURSIVE RStrip(_)
RStrip(s) ==
    IF s # <<>> /\ IsSpace(s[Len(s)]) THEN RStrip(SubSeq(s, 1, Len(s) - 1)) ELSE s
Strip(s) == RStrip(LStrip(s))

\* a in b, for strings
IsSubstr(a, b) ==
    \E i \in 0..(Len(b) - Len(a)) : SubSeq(b, i + 1, i + Len(a)) = a

\* seq[:n] for n >= 0
Truncate(s, n) == IF Len(s) <= n THEN s ELSE SubSeq(s, 1, n)

\* re.findall(r'\b\w+\b|[\u4e00-\u9fff]+', text.lower()): scanning from the
\* left, at a word character the first alternative matches the maximal run of
\* word characters (CJK ideographs are word characters, so the second
\* alternative never gets to match); other characters are skipped.
RECURSIVE WordRun(_)
WordRun(s) ==
    IF s # <<>> /\ IsWordChar(Head(s)) THEN <<Head(s)>> \o WordRun(Tail(s)) ELSE <<>>

\* FindAll for the pattern with \w* in place of \w+: an empty match at
\* every character that starts no word, and at the end of the text
RECURSIVE FindAllStar(_)
FindAllStar(s) ==
    IF s = <<>> THEN << <<>> >>
    ELSE IF IsWordChar(Head(s))
         THEN LET w == WordRun(s)
              IN  <<w>> \o FindAllStar(SubSeq(s, Len(w) + 1, Len(s)))
         ELSE << <<>> >> \o FindAllStar(Tail(s))

RECURSIVE FindAll(_)
FindAll(s) ==
    IF s = <<>> THEN <<>>
    ELSE IF IsWordChar(Head(s))
         THEN LET w == WordRun(s)
              IN  <<w>> \o FindAll(SubSeq(s, Len(w) + 1, Len(s)))
         ELSE FindAll(Tail(s))

Tokenize(text) == FindAll(Lower(text))

(***************************************************************************)
(* The vector store's content.  A stored record is                         *)
(* [id, document, metadata, embedding]; metadata.gpt_assets is the JSON    *)
(* text the ingestion wrote, kept with what json.loads makes of it         *)
(* (a list of strings, another JSON value, or a decode error).             *)
(***************************************************************************)
JsonList(raw, items) == [raw |-> raw, kind |-> "list", items |-> items]
JsonOther(raw)       == [raw |-> raw, kind |-> "other", items |-> <<>>]
JsonError(raw)       == [raw |-> raw, kind |-> "error", items |-> <<>>]

AL   == <<"A", "l">>
BO   == <<"B", "o">>
POS  == <<"p", "o", "s">>
NEG  == <<"n", "e", "g">>
BTC  == <<"B", "T", "C">>
ETH  == <<"E", "T", "H">>
SOL  == <<"S", "O", "L">>
BLUR == <<"b", "l", "u", "r">>

D1 == [id |-> "d1", document |-> <<"F", "e", "d", " ", "c", "u", "t">>, embedding |-> 1,
       metadata |-> [screen_name |-> AL, display_name |-> <<"A", "l", " ", "B">>,
                     gpt_sentiment |-> POS, is_market_related |-> TRUE,
                     gpt_assets |-> JsonList(<<"[", "\"", "B", "T", "C", "\"", ",", "\"", "E", "T", "H", "\"", "]">>, <<BTC, ETH>>)]]
D2 == [id |-> "d2", document |-> <<"n", "f", "t", " ", "m", "i", "n", "t">>, embedding |-> 6,
       metadata |-> [screen_name |-> BO, display_name |-> BO,
                     gpt_sentiment |-> NEG, is_market_related |-> FALSE,
                     gpt_assets |-> JsonList(<<"[", "\"", "s", "o", "l", "\"", "]">>, <<<<"s", "o", "l">>>>)]]
D3 == [id |-> "d3", document |-> <<"f", "e", "d", " ", "l", "i", "q", ",", " ", "f", "e", "d">>, embedding |-> 2,
       metadata |-> [screen_name |-> AL, display_name |-> AL,
                     gpt_sentiment |-> NEG, is_market_related |-> TRUE,
                     gpt_assets |-> JsonList(<<"[", "\"", "S", "O", "L", "\"", "]">>, <<SOL>>)]]
D4 == [id |-> "d4", document |-> <<"n", "f", "t", " ", "f", "e", "d">>, embedding |-> 4,
       metadata |-> [screen_name |-> BO, display_name |-> <<"B", "o", " ", "a", "l">>,
                     gpt_sentiment |-> POS, is_market_related |-> TRUE,
                     gpt_assets |-> JsonError(<<"S", "O", "L", "!">>)]]

D5 == [id |-> "d5", document |-> <<"l", "i", "q">>, embedding |-> 1,
       metadata |-> [screen_name |-> AL, display_name |-> AL,
                     gpt_sentiment |-> POS, is_market_related |-> FALSE,
                     gpt_assets |-> JsonOther(<<"\"", "S", "O", "L", "\"">>)]]

\* the records present when the service starts, in the store's order, and the
\* records the ingestion pipeline may add later (appended in this order)
BaseCorpus == <<D1, D2, D3>>
LaterDocs  == <<D4, D5>>

\* the query texts of the requests, and the external embedder's vector for a
\* text (one dimension)
Q_FED   == <<"f", "e", "d", " ", "l", "i", "q">>
Q_NFT   == <<" ", "N", "F", "T", " ">>
Q_BLANK == <<" ", " ">>
Q_LIQ == <<"l", "i", "q">>
Embed(text) == IF text = Q_FED THEN 1 ELSE 5

(***************************************************************************)
(* Sequences.                                                              *)
(***************************************************************************)
RECURSIVE SelectSeqBy(_, _)
\* the subsequence of s at the positions of the set keep
SelectSeqBy(s, keep) ==
    IF s = <<>> THEN <<>>
    ELSE LET front == SelectSeqBy(SubSeq(s, 1, Len(s) - 1), keep)
         IN  IF Len(s) \in keep THEN Append(front, s[Len(s)]) ELSE front

Range(s) == {s[i] : i \in DOMAIN s}

\* a key is a fraction [n, d] with d > 0
KeyGeq(a, b) == a.n * b.d >= b.n * a.d

RECURSIVE InsertDesc(_, _)
InsertDesc(x, sorted) ==
    IF sorted = <<>> THEN <<x>>
    ELSE IF KeyGeq(Head(sorted).key, x.key)
         THEN <<Head(sorted)>> \o InsertDesc(x, Tail(sorted))
         ELSE <<x>> \o sorted

RECURSIVE SortDesc(_)
\* list.sort(key=..., reverse=True) / sorted(..., reverse=True): by key,
\* largest first, elements of equal key in their input order (the sort is stable)
SortDesc(s) ==
    IF s = <<>> THEN <<>>
    ELSE InsertDesc(s[Len(s)], SortDesc(SubSeq(s, 1, Len(s) - 1)))

(***************************************************************************)
(* build_where_clause: the scalar equality filter pushed to the store.     *)
(* {"f": v} is [op |-> "eq", parts |-> <<[field |-> f, value |-> v]>>] and *)
(* {"$and": [...]} is [op |-> "and", parts |-> ...]; is_market_related is  *)
(* None, Some(TRUE) or Some(FALSE).                                        *)
(***************************************************************************)
Pred(f, v) == [field |-> f, value |-> v]

\* build_where_clause with the asset added as a predicate on gpt_assets
build_where_clauseWithAsset(trader_name, asset, sentiment, is_market_related) ==
    LET where_parts ==
            (IF Truthy(trader_name)
             THEN <<Pred("screen_name", trader_name)>> ELSE <<>>)
            \o (IF Truthy(asset)
                THEN <<Pred("gpt_assets", asset)>> ELSE <<>>)
            \o (IF Truthy(sentiment)
                THEN <<Pred("gpt_sentiment", sentiment)>> ELSE <<>>)
            \o (IF is_market_related # None
                THEN <<Pred("is_market_related", is_market_related[1])>> ELSE <<>>)
    IN  IF Len(where_parts) = 0 THEN None
        ELSE IF Len(where_parts) = 1 THEN Some([op |-> "eq", parts |-> where_parts])
        ELSE Some([op |-> "and", parts |-> where_parts])

build_where_clause(trader_name, asset, sentiment, is_market_related) ==
    LET where_parts ==
            (IF Truthy(trader_name)
             THEN <<Pred("screen_name", trader_name)>> ELSE <<>>)
            \o (IF Truthy(sentiment)
                THEN <<Pred("gpt_sentiment", sentiment)>> ELSE <<>>)
            \o (IF is_market_related # None
                THEN <<Pred("is_market_related", is_market_related[1])>> ELSE <<>>)
    IN  IF Len(where_parts) = 0 THEN None
        ELSE IF Len(where_parts) = 1 THEN Some([op |-> "eq", parts |-> where_parts])
        ELSE Some([op |-> "and", parts |-> where_parts])

(***************************************************************************)
(* The external vector store (a ChromaDB collection) over the sequence     *)
(* docs of its records.                                                    *)
(***************************************************************************)
\* whether a record satisfies every equality predicate of a where filter
Matches(doc, where) ==
    where = None \/ \A i \in DOMAIN where[1].parts :
                        doc.metadata[where[1].parts[i].field] = where[1].parts[i].value

AsResults(recs) ==
    [ids       |-> [i \in DOMAIN recs |-> recs[i].id],
     documents |-> [i \in DOMAIN recs |-> recs[i].document],
     metadatas |-> [i \in DOMAIN recs |-> recs[i].metadata]]

\* collection.get(where=...), collection.get(), collection.get(limit=n)
StoreGet(docs, where) ==
    AsResults(SelectSeqBy(docs, {i \in DOMAIN docs : Matches(docs[i], where)}))
StoreGetLimit(docs, n) == AsResults(Truncate(docs, n))

\* the store's distance between the query vector and a record's vector
Distance(qv, doc) == (qv - doc.embedding) * (qv - doc.embedding)

\* collection.query(query_embeddings=[qv], n_results=n, where=...): the n
\* nearest matching records, nearest first
StoreQuery(docs, qv, n, where) ==
    LET cand   == SelectSeqBy(docs, {i \in DOMAIN docs : Matches(docs[i], where)})
        keyed  == [i \in DOMAIN cand |->
                     [doc |-> cand[i], key |-> [n |-> 0 - Distance(qv, cand[i]), d |-> 1]]]
        sorted == Truncate(SortDesc(keyed), n)
        recs   == [i \in DOMAIN sorted |-> sorted[i].doc]
    IN  [ids       |-> [i \in DOMAIN recs |-> recs[i].id],
         documents |-> [i \in DOMAIN recs |-> recs[i].document],
         metadatas |-> [i \in DOMAIN recs |-> recs[i].metadata],
         distances |-> [i \in DOMAIN recs |-> Distance(qv, recs[i])]]

(***************************************************************************)
(* The external BM25Okapi model.  The model built over tokenized_docs is   *)
(* represented by tokenized_docs itself; get_scores gives each document an *)
(* integer weight in place of the library's floating-point score: the sum, *)
(* over the query tokens, of the token's frequency in the document times a *)
(* weight that falls with the number of documents holding the token.  A    *)
(* document that shares no token with the query scores 0.                  *)
(***************************************************************************)
BM25Okapi(tokenized_docs) == tokenized_docs

Count(tok, toks) == Cardinality({i \in DOMAIN toks : toks[i] = tok})

RECURSIVE SumOver(_, _, _)
\* the sum of f[s[i]] over the positions i of s, starting from position i
SumOver(s, f, i) == IF i > Len(s) THEN 0 ELSE f[s[i]] + SumOver(s, f, i + 1)

get_scores(bm25, query_tokens) ==
    LET N       == Len(bm25)
        df(tok) == Cardinality({i \in DOMAIN bm25 : Count(tok, bm25[i]) > 0})
        w(i)    == [tok \in Range(query_tokens) |->
                       Count(tok, bm25[i]) * (N - df(tok) + 1)]
    IN  [i \in DOMAIN bm25 |-> SumOver(query_tokens, w(i), 1)]

(***************************************************************************)
(* build_bm25_index(collection, trader_name, where_clause), called with    *)
(* the globals g_index (_bm25_index) and g_cache (_documents_cache).       *)
(* getFail says what the store does with this call's fetches: "ok",        *)
(* "where" (a fetch with a where filter raises, one without succeeds) or   *)
(* "all" (every fetch raises).  The result holds the returned pair (index, *)
(* cache), the globals after the call, whether the call raised, the number *)
(* of collection.get calls it made (gets) and, when it built an index, the *)
(* kind of fetch the index was built from (how).                           *)
(***************************************************************************)
BuildOutcome(raised, index, cache, g_index, g_cache, gets, how) ==
    [raised |-> raised, index |-> index, cache |-> cache,
     g_index |-> g_index, g_cache |-> g_cache, gets |-> gets, how |-> how]

\* BuildFrom that clears the cache when there is no document
BuildFromClearing(results, g_index, g_cache, gets, how) ==
    IF results.documents = <<>>
    THEN BuildOutcome(FALSE, None, None, None, None, gets, "none")
    ELSE LET tokenized_docs == [i \in DOMAIN results.documents |->
                                   Tokenize(results.documents[i])]
             bm25  == BM25Okapi(tokenized_docs)
             cache == [ids |-> results.ids, documents |-> results.documents,
                       metadatas |-> results.metadatas]
         IN  BuildOutcome(FALSE, Some(bm25), Some(cache), Some(bm25), Some(cache),
                          gets, how)

\* lines 174-193: tokenize, build, replace the cache
BuildFrom(results, g_index, g_cache, gets, how) ==
    IF results.documents = <<>>
    THEN BuildOutcome(FALSE, None, None, g_index, g_cache, gets, "none")
    ELSE LET tokenized_docs == [i \in DOMAIN results.documents |->
                                   Tokenize(results.documents[i])]
             bm25  == BM25Okapi(tokenized_docs)
             cache == [ids |-> results.ids, documents |-> results.documents,
                       metadatas |-> results.metadatas]
         IN  BuildOutcome(FALSE, Some(bm25), Some(cache), Some(bm25), Some(cache),
                          gets, how)

\* lines 139-167: the fuzzy handle match over a sample of the store
FuzzyMatch(docs, trader_name) ==
    LET all_results == StoreGetLimit(docs, SAMPLE_LIMIT)
        hit(i) == \/ IsSubstr(Lower(trader_name),
                              Lower(all_results.metadatas[i].screen_name))
                  \/ IsSubstr(Lower(trader_name),
                              Lower(all_results.metadatas[i].display_name))
        keep == {i \in DOMAIN all_results.ids : hit(i)}
    IN  [ids       |-> SelectSeqBy(all_results.ids, keep),
         documents |-> SelectSeqBy(all_results.documents, keep),
         metadatas |-> SelectSeqBy(all_results.metadatas, keep)]

build_bm25_index(docs, g_index, g_cache, trader_name, where_clause, getFail) ==
    IF g_index # None /\ g_cache # None /\ where_clause = None
    THEN BuildOutcome(FALSE, g_index, g_cache, g_index, g_cache, 0, "cached")
    ELSE
    LET where == IF where_clause = None /\ Truthy(trader_name)
                 THEN Some([op |-> "eq", parts |-> <<Pred("screen_name", trader_name)>>])
                 ELSE where_clause
        \* the fetch of the try block raises
        firstRaises == getFail = "all" \/ (getFail = "where" /\ where # None)
        gets == IF firstRaises THEN 2 ELSE 1
    IN  IF firstRaises /\ getFail = "all"
        THEN BuildOutcome(TRUE, None, None, g_index, g_cache, gets, "none")
        ELSE
        LET results == IF firstRaises THEN StoreGet(docs, None)
                       ELSE StoreGet(docs, where)
            how     == IF firstRaises \/ where = None THEN "unfiltered"
                       ELSE "filtered"
        IN  IF results.ids = <<>> /\ Truthy(trader_name)
            THEN LET fuzzy == FuzzyMatch(docs, trader_name)
                 IN  IF fuzzy.ids # <<>>
                     THEN BuildFrom(fuzzy, g_index, g_cache, gets + 1, "fuzzy")
                     ELSE BuildOutcome(FALSE, None, None, g_index, g_cache,
                                       gets + 1, "none")
            ELSE BuildFrom(results, g_index, g_cache, gets, how)

(***************************************************************************)
(* rrf_merge(vector_results, bm25_results, k): both arguments are lists of *)
(* (doc_id, score) pairs, here records [id, score].  set_order stands for  *)
(* the iteration order of the Python set all_doc_ids, which fixes the      *)
(* order of ids of equal fused score: a sequence holding every id once.    *)
(***************************************************************************)
\* RankOf by the scores of the list, best first, for its positions
RankOfByScore(results, id) ==
    LET pos == {i \in DOMAIN results : results[i].id = id}
        i   == CHOOSE i \in pos : \A j \in pos : j <= i
    IN  1 + Cardinality({j \in DOMAIN results :
                            \/ results[j].score > results[i].score
                            \/ results[j].score = results[i].score /\ j < i})

\* {doc_id: rank + 1 for rank, (doc_id, _) in enumerate(results)}: an id that
\* occurs twice keeps its last position
RankOf(results, id) ==
    LET pos == {i \in DOMAIN results : results[i].id = id}
    IN  CHOOSE i \in pos : \A j \in pos : j <= i

Ids(results) == {results[i].id : i \in DOMAIN results}

\* RRFScore with the second contribution assigned over the first (= for +=)
RRFScoreAssigned(vector_results, bm25_results, k, id) ==
    IF id \in Ids(bm25_results)
    THEN [n |-> 1, d |-> k + RankOf(bm25_results, id)]
    ELSE IF id \in Ids(vector_results)
    THEN [n |-> 1, d |-> k + RankOf(vector_results, id)]
    ELSE [n |-> 0, d |-> 1]

\* 1/(k + r1) + 1/(k + r2), either term absent, as a fraction
RRFScore(vector_results, bm25_results, k, id) ==
    LET inV == id \in Ids(vector_results)
        inB == id \in Ids(bm25_results)
        dv  == k + RankOf(vector_results, id)
        db  == k + RankOf(bm25_results, id)
    IN  IF inV /\ inB THEN [n |-> dv + db, d |-> dv * db]
        ELSE IF inV THEN [n |-> 1, d |-> dv]
        ELSE IF inB THEN [n |-> 1, d |-> db]
        ELSE [n |-> 0, d |-> 1]

\* rrf_merge that walks the ids of the vector list only
rrf_mergeVectorIds(vector_results, bm25_results, k, set_order) ==
    LET all_doc_ids == Ids(vector_results)
        iter        == SelectSeqBy(set_order,
                                   {i \in DOMAIN set_order : set_order[i] \in all_doc_ids})
        rrf_scores  == [i \in DOMAIN iter |->
                          [id  |-> iter[i],
                           key |-> RRFScore(vector_results, bm25_results, k, iter[i])]]
        sorted_docs == SortDesc(rrf_scores)
    IN  [i \in DOMAIN sorted_docs |-> sorted_docs[i].id]

rrf_merge(vector_results, bm25_results, k, set_order) ==
    LET all_doc_ids == Ids(vector_results) \cup Ids(bm25_results)
        iter        == SelectSeqBy(set_order,
                                   {i \in DOMAIN set_order : set_order[i] \in all_doc_ids})
        rrf_scores  == [i \in DOMAIN iter |->
                          [id  |-> iter[i],
                           key |-> RRFScore(vector_results, bm25_results, k, iter[i])]]
        sorted_docs == SortDesc(rrf_scores)
    IN  [i \in DOMAIN sorted_docs |-> sorted_docs[i].id]

(***************************************************************************)
(* filter_by_asset(results, asset, assets): results are records            *)
(* [id, document, metadata]; asset is a string or None, assets a list of   *)
(* strings or None.                                                        *)
(***************************************************************************)
\* IsBlur comparing without lower-casing
IsBlurExact(a) == a = BLUR

IsBlur(a) == Lower(a) = BLUR

\* AssetHit asking for every target ticker (all(...) for any(...))
AssetHitAll(result, target_assets) ==
    LET field == result.metadata.gpt_assets
    IN  CASE field.kind = "list" ->
               LET assets_upper == {Upper(field.items[i]) : i \in DOMAIN field.items}
               IN  \A t \in Range(target_assets) : t \in assets_upper
          [] field.kind = "error" ->
               \A t \in Range(target_assets) : IsSubstr(t, Upper(field.raw))
          [] OTHER -> FALSE

\* whether one result passes, for the upper-cased target tickers
AssetHit(result, target_assets) ==
    LET field == result.metadata.gpt_assets
    IN  CASE field.kind = "list" ->
               LET assets_upper == {Upper(field.items[i]) : i \in DOMAIN field.items}
               IN  \E t \in Range(target_assets) : t \in assets_upper
          [] field.kind = "error" ->
               \E t \in Range(target_assets) : IsSubstr(t, Upper(field.raw))
          [] OTHER -> FALSE

\* filter_by_asset that does not upper-case the single asset
filter_by_assetAsGiven(results, asset, assets) ==
    IF Truthy(asset) /\ IsBlur(asset) THEN results
    ELSE IF Truthy(assets) /\ \E i \in DOMAIN assets : IsBlur(assets[i]) THEN results
    ELSE IF ~Truthy(assets) /\ ~Truthy(asset) THEN results
    ELSE LET target_assets ==
                 IF Truthy(assets)
                 THEN LET kept == SelectSeqBy(assets, {i \in DOMAIN assets :
                                       assets[i] # <<>> /\ ~IsBlur(assets[i])})
                      IN  [i \in DOMAIN kept |-> Upper(kept[i])]
                 ELSE <<asset>>
         IN  IF target_assets = <<>> THEN results
             ELSE SelectSeqBy(results,
                      {i \in DOMAIN results : AssetHit(results[i], target_assets)})

filter_by_asset(results, asset, assets) ==
    IF Truthy(asset) /\ IsBlur(asset) THEN results
    ELSE IF Truthy(assets) /\ \E i \in DOMAIN assets : IsBlur(assets[i]) THEN results
    ELSE IF ~Truthy(assets) /\ ~Truthy(asset) THEN results
    ELSE LET target_assets ==
                 IF Truthy(assets)
                 THEN LET kept == SelectSeqBy(assets, {i \in DOMAIN assets :
                                       assets[i] # <<>> /\ ~IsBlur(assets[i])})
                      IN  [i \in DOMAIN kept |-> Upper(kept[i])]
                 ELSE <<Upper(asset)>>
         IN  IF target_assets = <<>> THEN results
             ELSE SelectSeqBy(results,
                      {i \in DOMAIN results : AssetHit(results[i], target_assets)})

(***************************************************************************)
(* hybrid_search.  g_index, g_cache and g_model are the globals            *)
(* _bm25_index, _documents_cache and _embedding_model (loaded or not) when *)
(* the call starts.  fail says what the collaborators do during the call:  *)
(*   fail.get   : "ok" | "where" | "all"   (collection.get)                *)
(*   fail.embed : "ok" | "load" | "encode" (SentenceTransformer(...) raises*)
(*                when the model has to be loaded; encode raises)          *)
(*   fail.query : "ok" | "where" | "all"   (collection.query)              *)
(* The result holds whether the call raised, the returned list, the        *)
(* globals after the call, and the intermediate values of the call.        *)
(***************************************************************************)
SearchOutcome(raised, results, b, g_model, where_clause, bm25_results, embeds, queries, vector_scores, merged_doc_ids, fused) ==
    [raised |-> raised, results |-> results,
     g_index |-> b.g_index, g_cache |-> b.g_cache, g_model |-> g_model,
     where_clause |-> where_clause, index |-> b.index, gets |-> b.gets,
     how |-> b.how, bm25_results |-> bm25_results, embeds |-> embeds,
     queries |-> queries.queries, n_results |-> queries.n_results,
     cache_ids |-> IF b.cache = None THEN None ELSE Some(b.cache[1].ids),
     vector_scores |-> vector_scores,
     merged_doc_ids |-> merged_doc_ids, fused |-> fused]

\* the outcome of a call that ends before the fusion: it raised, or it
\* returned [] for want of a lexical index
Ended(raised, b, g_model, where_clause, bm25_results, embeds, queries) ==
    SearchOutcome(raised, <<>>, b, g_model, where_clause, bm25_results, embeds,
                  queries, <<>>, <<>>, <<>>)

\* LexicalRanking that keeps the documents no query token matches
LexicalRankingAll(index, bm25_cache, query_text, limit) ==
    LET query_tokens == Tokenize(query_text)
        bm25_scores  == get_scores(index, query_tokens)
        hits         == [i \in DOMAIN bm25_scores |->
                            [id    |-> bm25_cache.ids[i],
                             score |-> bm25_scores[i],
                             key   |-> [n |-> bm25_scores[i], d |-> 1]]]
        sorted       == Truncate(SortDesc(hits), limit * 2)
    IN  [i \in DOMAIN sorted |-> [id |-> sorted[i].id, score |-> sorted[i].score]]

\* lines 377-386: the documents of the cache with a score > 0, best first, at
\* most 2 * limit of them
LexicalRanking(index, bm25_cache, query_text, limit) ==
    LET query_tokens == Tokenize(query_text)
        bm25_scores  == get_scores(index, query_tokens)
        hits         == SelectSeqBy([i \in DOMAIN bm25_scores |->
                                        [id    |-> bm25_cache.ids[i],
                                         score |-> bm25_scores[i],
                                         key   |-> [n |-> bm25_scores[i], d |-> 1]]],
                                    {i \in DOMAIN bm25_scores : bm25_scores[i] > 0})
        sorted       == Truncate(SortDesc(hits), limit * 2)
    IN  [i \in DOMAIN sorted |-> [id |-> sorted[i].id, score |-> sorted[i].score]]

\* lines 392-404: the filtered nearest-neighbour query and its retry with no
\* filter; None when the last attempt raised
\* VectorQuery whose retry asks for limit neighbours in place of 2 * limit
VectorQueryShortRetry(docs, qv, limit, where_clause, queryFail) ==
    LET firstRaises == queryFail = "all" \/ (queryFail = "where" /\ where_clause # None)
    IN  [queries |-> IF firstRaises THEN 2 ELSE 1,
         n_results |-> IF firstRaises THEN <<limit * 2, limit>> ELSE <<limit * 2>>,
         vector_results |->
             IF ~firstRaises THEN Some(StoreQuery(docs, qv, limit * 2, where_clause))
             ELSE IF queryFail = "all" THEN None
             ELSE Some(StoreQuery(docs, qv, limit, None))]

VectorQuery(docs, qv, limit, where_clause, queryFail) ==
    LET firstRaises == queryFail = "all" \/ (queryFail = "where" /\ where_clause # None)
    IN  [queries |-> IF firstRaises THEN 2 ELSE 1,
         n_results |-> IF firstRaises THEN <<limit * 2, limit * 2>> ELSE <<limit * 2>>,
         vector_results |->
             IF ~firstRaises THEN Some(StoreQuery(docs, qv, limit * 2, where_clause))
             ELSE IF queryFail = "all" THEN None
             ELSE Some(StoreQuery(docs, qv, limit * 2, None))]

\* lines 406-413: score = 1 / (1 + distance), as a fraction
VectorScores(vector_results) ==
    [i \in DOMAIN vector_results.ids |->
        [id |-> vector_results.ids[i],
         score |-> [n |-> 1, d |-> 1 + vector_results.distances[i]]]]

\* lines 418-438: the lexical cache's copy of a document, else the vector
\* search's copy; None for an id neither holds
Resolve(id, bm25_cache, vector_results) ==
    LET inCache == {i \in DOMAIN bm25_cache.ids : bm25_cache.ids[i] = id}
        inVec   == {i \in DOMAIN vector_results.ids : vector_results.ids[i] = id}
    IN  IF inCache # {}
        THEN LET i == CHOOSE i \in inCache : \A j \in inCache : j <= i
             IN  Some([id |-> id, document |-> bm25_cache.documents[i],
                       metadata |-> bm25_cache.metadatas[i]])
        ELSE IF inVec # {}
        THEN LET i == CHOOSE i \in inVec : \A j \in inVec : i <= j
                  IN  Some([id |-> id, document |-> vector_results.documents[i],
                       metadata |-> vector_results.metadatas[i]])
        ELSE None

\* ResolveAll that walks doc_map, in its insertion order, for the wanted ids
ResolveAllMapOrder(ids, bm25_cache, vector_results) ==
    LET keys  == bm25_cache.ids \o vector_results.ids
        amongst == SelectSeqBy(keys, {i \in DOMAIN keys :
                                        /\ keys[i] \in Range(ids)
                                        /\ \A j \in 1..(i - 1) : keys[j] # keys[i]})
        docs  == [i \in DOMAIN amongst |-> Resolve(amongst[i], bm25_cache, vector_results)]
    IN  [i \in DOMAIN docs |-> docs[i][1]]

ResolveAll(ids, bm25_cache, vector_results) ==
    LET docs  == [i \in DOMAIN ids |-> Resolve(ids[i], bm25_cache, vector_results)]
        found == SelectSeqBy(docs, {i \in DOMAIN docs : docs[i] # None})
    IN  [i \in DOMAIN found |-> found[i][1]]

\* lines 446-455: the asset stage of hybrid_search
AssetStage(results, asset, assets) ==
    LET should_filter_asset ==
            IF Truthy(asset) /\ IsBlur(asset) THEN FALSE
            ELSE IF Truthy(assets) /\ \E i \in DOMAIN assets : IsBlur(assets[i])
            THEN FALSE
            ELSE TRUE
    IN  IF should_filter_asset /\ (Truthy(asset) \/ Truthy(assets))
        THEN filter_by_asset(results, asset, assets)
        ELSE results

\* FinalResults without its two cuts to limit
FinalResultsUncut(merged_doc_ids, bm25_cache, vector_results, asset, assets, limit) ==
    AssetStage(ResolveAll(merged_doc_ids, bm25_cache, vector_results), asset, assets)

\* lines 440-457: cut the fused ranking to limit, resolve, filter by asset, cut
FinalResults(merged_doc_ids, bm25_cache, vector_results, asset, assets, limit) ==
    LET results == ResolveAll(Truncate(merged_doc_ids, limit), bm25_cache,
                              vector_results)
    IN  Truncate(AssetStage(results, asset, assets), limit)

\* a call that ends before line 393 has asked the collection for no neighbour
NoQuery == [queries |-> 0, n_results |-> <<>>]

NoVector == [ids |-> <<>>, documents |-> <<>>, metadatas |-> <<>>, distances |-> <<>>]

\* The call's arguments are passed on as the record p.  Each operator below is
\* the rest of hybrid_search from the line named, given the values computed
\* before that line.

\* lines 440-457, given merged_doc_ids
Finish(p, b, model, where_clause, bm25_results, queries, vector_results, vector_scores, merged_doc_ids) ==
    SearchOutcome(FALSE,
                  FinalResults(merged_doc_ids, b.cache[1], vector_results,
                               p.asset, p.assets, p.limit),
                  b, model, where_clause, bm25_results, 1, queries,
                  vector_scores, merged_doc_ids,
                  ResolveAll(merged_doc_ids, b.cache[1], vector_results))

\* lines 415-416, given vector_scores
Merge(p, b, model, where_clause, bm25_results, queries, vector_results, vector_scores, set_order) ==
    Finish(p, b, model, where_clause, bm25_results, queries, vector_results,
           vector_scores, rrf_merge(vector_scores, bm25_results, RRF_K, set_order))

\* lines 406-413, given the outcome v of the vector query
AfterQuery(p, b, model, where_clause, bm25_results, v, set_order) ==
    IF v.vector_results = None
    THEN Ended(TRUE, b, model, where_clause, bm25_results, 1, v)
    ELSE Merge(p, b, model, where_clause, bm25_results, v,
               v.vector_results[1], VectorScores(v.vector_results[1]), set_order)

\* lines 388-404, given bm25_results: get_embedding_model, encode, the
\* vector query
AfterLexical(docs, p, b, g_model, where_clause, bm25_results, set_order, fail) ==
    IF ~g_model /\ fail.embed = "load"
    THEN Ended(TRUE, b, FALSE, where_clause, bm25_results, 1, NoQuery)
    ELSE IF fail.embed = "encode"
    THEN Ended(TRUE, b, TRUE, where_clause, bm25_results, 1, NoQuery)
    ELSE AfterQuery(p, b, TRUE, where_clause, bm25_results,
                    VectorQuery(docs, Embed(p.query_text), p.limit, where_clause,
                                fail.query),
                    set_order)

\* lines 370-386, given the outcome b of build_bm25_index
AfterIndex(docs, p, b, g_model, where_clause, set_order, fail) ==
    IF b.raised
    THEN Ended(TRUE, b, g_model, where_clause, <<>>, 0, NoQuery)
    ELSE IF b.index = None \/ b.cache = None
    THEN Ended(FALSE, b, g_model, where_clause, <<>>, 0, NoQuery)
    ELSE AfterLexical(docs, p, b, g_model, where_clause,
                      LexicalRanking(b.index[1], b.cache[1], p.query_text, p.limit),
                      set_order, fail)

\* line 368, given where_clause
AfterWhere(docs, g_index, g_cache, g_model, p, where_clause, set_order, fail) ==
    AfterIndex(docs, p,
               build_bm25_index(docs, g_index, g_cache, p.trader_name,
                                where_clause, fail.get),
               g_model, where_clause, set_order, fail)

hybrid_search(docs, g_index, g_cache, g_model, set_order, p, fail) ==
    AfterWhere(docs, g_index, g_cache, g_model, p,
               build_where_clause(p.trader_name, None, p.sentiment,
                                  p.is_market_related),
               set_order, fail)

(***************************************************************************)
(* The state of the service process, the exchange in progress and the      *)
(* store.                                                                  *)
(***************************************************************************)
VARIABLES
    store,            \* the records of the external collection, in its order
    collection,       \* _collection is set (get_collection has succeeded)
    embedding_model,  \* _embedding_model is set (the model is loaded)
    bm25_index,       \* _bm25_index: None or the BM25 model
    documents_cache,  \* _documents_cache: None or [ids, documents, metadatas]
    set_order,        \* the process's iteration order of a set of ids
    request,          \* the JSON body of the request being served, or None
    response,         \* the response to it, with the handler's trace, or None
    built_from,       \* history: the call that built the cached index
    first,            \* history: the first request served and its result
    threads,          \* the requests being served concurrently, each with
                      \* its position in hybrid_search and its locals
    loads             \* history: the number of SentenceTransformer(...) calls

vars == <<store, collection, embedding_model, bm25_index, documents_cache,
          set_order, request, response, built_from, first, threads, loads>>

\* what the handler serving one request at a time leaves alone
conc == <<threads, loads>>

AllIds == <<"d1", "d2", "d3", "d4", "d5">>
Reverse(s) == [i \in DOMAIN s |-> s[Len(s) + 1 - i]]

NeverBuilt == [where |-> None, how |-> "none", fresh |-> FALSE]

Init ==
    /\ store = BaseCorpus
    /\ collection = FALSE
    /\ embedding_model = FALSE
    /\ bm25_index = None
    /\ documents_cache = None
    /\ set_order \in {AllIds, Reverse(AllIds)}
    /\ request = None
    /\ response = None
    /\ built_from = NeverBuilt
    /\ first = None
    /\ threads = <<>>
    /\ loads = 0

(***************************************************************************)
(* The /query handler (query), whole: parsing, get_collection,             *)
(* hybrid_search, the viewpoints, and the except clause.                   *)
(***************************************************************************)
\* data.get(key, "").strip() or None
StripOrNone(s) == Strip(s)

\* lines 519-524
ParseAssets(assets) ==
    IF assets = None \/ assets = <<>> THEN None
    ELSE LET kept == SelectSeqBy(assets, {i \in DOMAIN assets : Strip(assets[i]) # <<>>})
             out  == [i \in DOMAIN kept |-> Strip(kept[i])]
         IN  IF out = <<>> THEN None ELSE out

\* lines 552-558
Viewpoints(results) ==
    LET kept == SelectSeqBy(results, {i \in DOMAIN results : results[i].document # <<>>})
    IN  [i \in DOMAIN kept |->
            IF Len(kept[i].document) <= VIEWPOINT_MAX THEN kept[i].document
            ELSE SubSeq(kept[i].document, 1, VIEWPOINT_CUT) \o <<".", ".", ".">>]

Reply(status, viewpoints, error_reason, search, fail, pre) ==
    [status |-> status, viewpoints |-> viewpoints, error_reason |-> error_reason,
     search |-> search, fail |-> fail, pre |-> pre]

\* what the handler leaves of a hybrid_search outcome in the trace
Trace(o) ==
    [raised |-> o.raised, results |-> o.results, where_clause |-> o.where_clause,
     index |-> o.index, gets |-> o.gets, how |-> o.how,
     bm25_results |-> o.bm25_results, embeds |-> o.embeds, queries |-> o.queries,
     n_results |-> o.n_results, cache_ids |-> o.cache_ids,
     vector_scores |-> o.vector_scores, merged_doc_ids |-> o.merged_doc_ids,
     fused |-> o.fused]

\* lines 517-528: the arguments of hybrid_search, from the request body
Arguments(data) ==
    [query_text |-> Strip(data.query_text),
     trader_name |-> StripOrNone(data.trader_name),
     asset |-> StripOrNone(data.asset), assets |-> ParseAssets(data.assets),
     sentiment |-> StripOrNone(data.sentiment),
     is_market_related |-> data.is_market_related, limit |-> data.limit]

\* lines 551-571, given the outcome o of hybrid_search
Respond(fail, o) ==
    /\ collection' = TRUE
    /\ embedding_model' = o.g_model
    /\ bm25_index' = o.g_index
    /\ documents_cache' = o.g_cache
    /\ built_from' =
           IF o.how \in {"filtered", "unfiltered", "fuzzy"}
           THEN [where |-> o.where_clause, how |-> o.how, fresh |-> TRUE]
           ELSE [built_from EXCEPT !.fresh = FALSE]
    /\ response' = Some(Reply(IF o.raised THEN 500 ELSE 200,
                              IF o.raised THEN <<>> ELSE Viewpoints(o.results),
                              IF o.raised THEN "server error" ELSE "",
                              Some(Trace(o)), fail, built_from))

\* query with the empty-text test moved after get_collection
queryChecksLate(fail) ==
    /\ request # None
    /\ response = None
    /\ UNCHANGED <<store, set_order, request>>
    /\ IF ~collection /\ fail.collection
       THEN /\ response' = Some(Reply(500, <<>>, "server error", None, fail,
                                      built_from))
            /\ UNCHANGED <<collection, embedding_model, bm25_index,
                           documents_cache, built_from>>
       ELSE IF Strip(request[1].query_text) = <<>>
       THEN /\ response' = Some(Reply(400, <<>>, "empty query", None, fail,
                                      built_from))
            /\ collection' = TRUE
            /\ UNCHANGED <<embedding_model, bm25_index, documents_cache,
                           built_from>>
       ELSE Respond(fail,
                    hybrid_search(store, bm25_index, documents_cache,
                                  embedding_model, set_order,
                                  Arguments(request[1]), fail))

query(fail) ==
    /\ request # None
    /\ response = None
    /\ UNCHANGED <<store, set_order, request>>
    /\ IF Strip(request[1].query_text) = <<>>
       THEN /\ response' = Some(Reply(400, <<>>, "empty query", None, fail,
                                      built_from))
            /\ UNCHANGED <<collection, embedding_model, bm25_index,
                           documents_cache, built_from>>
       ELSE IF ~collection /\ fail.collection
       THEN /\ response' = Some(Reply(500, <<>>, "server error", None, fail,
                                      built_from))
            /\ UNCHANGED <<collection, embedding_model, bm25_index,
                           documents_cache, built_from>>
       ELSE Respond(fail,
                    hybrid_search(store, bm25_index, documents_cache,
                                  embedding_model, set_order,
                                  Arguments(request[1]), fail))

(***************************************************************************)
(* The environment: a client sends a request and takes the response; the   *)
(* ingestion pipeline adds a record to the store.                          *)
(***************************************************************************)
Body(query_text, trader_name, sentiment, is_market_related, asset, assets, limit) ==
    [query_text |-> query_text, trader_name |-> trader_name,
     sentiment |-> sentiment, is_market_related |-> is_market_related,
     asset |-> asset, assets |-> assets, limit |-> limit]

\* the (trader_name, sentiment, is_market_related) fields of a request: absent
\* fields are "" (None for the boolean)
Filters ==
    { <<<<>>, <<>>, None>>,
      <<AL, <<>>, None>>,
      <<<<" ", "a", "l">>, <<>>, None>>,
      <<<<"z", "z">>, <<>>, None>>,
      <<<<>>, POS, None>>,
      <<<<>>, <<>>, Some(TRUE)>>,
      <<AL, NEG, Some(TRUE)>>,
      <<<<" ", "a", "l">>, POS, Some(FALSE)>>,
      <<<<>>, POS, Some(FALSE)>> }

Requests ==
    { Body(q, f[1], f[2], f[3], a, None, l) :
        q \in {Q_FED, Q_NFT, Q_BLANK}, f \in Filters, a \in {<<>>, SOL},
        l \in 1..MaxLimit }

NoFail == [collection |-> FALSE, get |-> "ok", embed |-> "ok", query |-> "ok"]

Receive(data) ==
    /\ request = None
    /\ response = None
    /\ request' = Some(data)
    /\ UNCHANGED <<store, collection, embedding_model, bm25_index,
                   documents_cache, set_order, response, built_from, first>>

Deliver ==
    /\ response # None
    /\ request' = None
    /\ response' = None
    /\ UNCHANGED <<store, collection, embedding_model, bm25_index,
                   documents_cache, set_order, built_from, first>>

Ingest ==
    /\ request = None
    /\ Len(store) < Len(BaseCorpus) + MaxIngest
    /\ Len(store) < Len(BaseCorpus) + Len(LaterDocs)
    /\ store' = Append(store, LaterDocs[Len(store) - Len(BaseCorpus) + 1])
    /\ UNCHANGED <<collection, embedding_model, bm25_index, documents_cache,
                   set_order, request, response, built_from, first>>

\* the collaborators' failures during one call
Fails ==
    [collection : BOOLEAN, get : {"ok", "where", "all"},
     embed : {"ok", "load", "encode"}, query : {"ok", "where", "all"}]

FailFilters ==
    { <<<<>>, <<>>, None>>,
      <<AL, <<>>, None>>,
      <<<<"z", "z">>, <<>>, None>>,
      <<AL, NEG, Some(TRUE)>> }

FailRequests ==
    { Body(q, f[1], f[2], f[3], a, None, l) :
        q \in {Q_FED, Q_BLANK}, f \in FailFilters, a \in {<<>>, SOL},
        l \in 1..MaxLimit }

RepeatRequests ==
    { Body(q, t, <<>>, None, <<>>, None, l) :
        q \in {Q_FED, Q_NFT, Q_LIQ}, t \in {<<>>, AL, BO}, l \in 1..MaxLimit }

\* the first request served, with what hybrid_search returned for it
Remember ==
    first' = IF first = None /\ response'[1].search # None
             THEN Some([data |-> request[1],
                        raised |-> response'[1].search[1].raised,
                        results |-> response'[1].search[1].results])
             ELSE first

\* the service with working collaborators, and a store that grows
Next ==
    \/ (\E data \in Requests : Receive(data)) /\ UNCHANGED conc
    \/ query(NoFail) /\ UNCHANGED first /\ UNCHANGED conc
    \/ Deliver /\ UNCHANGED conc
    \/ Ingest /\ UNCHANGED conc

Spec == Init /\ [][Next]_vars

\* the service with failing collaborators
NextFail ==
    \/ (\E data \in FailRequests : Receive(data)) /\ UNCHANGED conc
    \/ (\E fail \in Fails : query(fail)) /\ UNCHANGED first /\ UNCHANGED conc
    \/ Deliver /\ UNCHANGED conc

SpecFail == Init /\ [][NextFail]_vars

\* the service with working collaborators over a fixed store
NextRepeat ==
    \/ (\E data \in RepeatRequests : Receive(data)) /\ UNCHANGED conc
    \/ query(NoFail) /\ Remember /\ UNCHANGED conc
    \/ Deliver /\ UNCHANGED conc

SpecRepeat == Init /\ [][NextRepeat]_vars

(***************************************************************************)
(* rrf_merge on its own: request holds the arguments of one call, two      *)
(* ranked lists of (doc_id, score) pairs without repeated ids and k;       *)
(* response holds the list of ids the call returned.                       *)
(***************************************************************************)
RRFIds == {"d1", "d2", "d3"}

\* the ranked lists of at most n distinct ids
RECURSIVE RankedLists(_)
RankedLists(n) ==
    IF n = 0 THEN {<<>>}
    ELSE LET shorter == RankedLists(n - 1)
         IN  shorter \cup
             UNION { { Append(l, [id |-> id, score |-> 0]) : id \in RRFIds \ Ids(l) } :
                       l \in shorter }

RRFCalls ==
    [vector_results : RankedLists(MaxRank), bm25_results : RankedLists(MaxRank),
     k : (1..MaxK) \cup {RRF_K}]

InitRRF ==
    /\ store = BaseCorpus
    /\ collection = FALSE
    /\ embedding_model = FALSE
    /\ bm25_index = None
    /\ documents_cache = None
    /\ set_order \in {AllIds, Reverse(AllIds)}
    /\ request \in {Some(c) : c \in RRFCalls}
    /\ response = None
    /\ built_from = NeverBuilt
    /\ first = None
    /\ threads = <<>>
    /\ loads = 0

CallRRF ==
    /\ request # None
    /\ response = None
    /\ response' = Some(rrf_merge(request[1].vector_results,
                                  request[1].bm25_results, request[1].k,
                                  set_order))
    /\ UNCHANGED <<store, collection, embedding_model, bm25_index,
                   documents_cache, set_order, request, built_from, first>>

NextRRF == CallRRF /\ UNCHANGED conc

SpecRRF == InitRRF /\ [][NextRRF]_vars

(***************************************************************************)
(* The asset filter on its own: request holds a result list and the        *)
(* request's asset and assets as sent; response holds what the asset       *)
(* stage of hybrid_search and filter_by_asset return for the arguments the *)
(* handler makes of them.                                                  *)
(***************************************************************************)
\* a record of the store as a search result
AsResult(doc) == [id |-> doc.id, document |-> doc.document, metadata |-> doc.metadata]

\* a result tagged with an empty JSON array
D6 == [id |-> "d6", document |-> <<"g", "m">>,
       metadata |-> [screen_name |-> BO, display_name |-> BO,
                     gpt_sentiment |-> POS, is_market_related |-> FALSE,
                     gpt_assets |-> JsonList(<<"[", "]">>, <<>>)]]

AssetPool == <<AsResult(D1), AsResult(D2), AsResult(D3), AsResult(D4),
               AsResult(D5), AsResult(D6)>>

\* the result lists: at most MaxResults results of the pool, in its order
ResultLists ==
    { SelectSeqBy(AssetPool, keep) :
        keep \in {k \in SUBSET DOMAIN AssetPool : Cardinality(k) <= MaxResults} }

AssetValues ==
    { <<>>, SOL, <<"s", "o", "l">>, ETH, <<"B", "l", "u", "r">>, <<" ", "S", "O", "L">> }

AssetsValues ==
    { None, <<SOL>>, <<<<"s", "o", "l">>>>, <<ETH, SOL>>, <<ETH>>,
      <<<<"B", "L", "U", "R">>>>, <<SOL, BLUR>>, <<<<" ">>, <<" ", "S", "O", "L">>>> }

AssetCalls == [results : ResultLists, asset : AssetValues, assets : AssetsValues]

InitAsset ==
    /\ store = BaseCorpus
    /\ collection = FALSE
    /\ embedding_model = FALSE
    /\ bm25_index = None
    /\ documents_cache = None
    /\ set_order = AllIds
    /\ request \in {Some(c) : c \in AssetCalls}
    /\ response = None
    /\ built_from = NeverBuilt
    /\ first = None
    /\ threads = <<>>
    /\ loads = 0

CallAsset ==
    /\ request # None
    /\ response = None
    /\ response' =
           Some([stage    |-> AssetStage(request[1].results,
                                         StripOrNone(request[1].asset),
                                         ParseAssets(request[1].assets)),
                 filtered |-> filter_by_asset(request[1].results,
                                              StripOrNone(request[1].asset),
                                              ParseAssets(request[1].assets))])
    /\ UNCHANGED <<store, collection, embedding_model, bm25_index,
                   documents_cache, set_order, request, built_from, first>>

NextAsset == CallAsset /\ UNCHANGED conc

SpecAsset == InitAsset /\ [][NextAsset]_vars

(***************************************************************************)
(* Requests served at the same time.  app.run serves each request in a     *)
(* thread of its own, and the globals _bm25_index, _documents_cache and    *)
(* _embedding_model are read and written with no lock.  A thread runs      *)
(* hybrid_search up to the embedding model; each action is one step        *)
(* between two accesses to a global, named after the line it models.       *)
(* threads[t] holds the position pc of thread t, its request's handle and  *)
(* where clause, the model and cache it built (built) and the pair         *)
(* build_bm25_index returned to it (index, cache).                         *)
(***************************************************************************)
Threads == 1..NumThreads

\* the handles of the concurrent requests (none, or a trader)
ThreadHandles == {<<>>, AL, BO}

NotStarted ==
    [pc |-> "idle", trader_name |-> <<>>, where_clause |-> None, built |-> None,
     index |-> None, cache |-> None]

InitConc ==
    /\ store = BaseCorpus
    /\ collection = TRUE
    /\ embedding_model = FALSE
    /\ bm25_index = None
    /\ documents_cache = None
    /\ set_order = AllIds
    /\ request = None
    /\ response = None
    /\ built_from = NeverBuilt
    /\ first = None
    /\ threads = [t \in Threads |-> NotStarted]
    /\ loads = 0

\* what a step of a thread leaves alone besides the globals it names
ThreadFrame == <<store, collection, set_order, request, response, built_from, first>>

\* thread t moves to pc, with the changes given to its other locals
Goto(t, pc, changes) == threads' = [threads EXCEPT ![t] = [changes EXCEPT !.pc = pc]]

\* lines 359-368: the request arrives, build_bm25_index is entered
Start(t, trader_name) ==
    /\ threads[t].pc = "idle"
    /\ Goto(t, "line118",
            [threads[t] EXCEPT !.trader_name = trader_name,
                               !.where_clause = build_where_clause(trader_name, <<>>, <<>>, None)])
    /\ UNCHANGED <<ThreadFrame, embedding_model, bm25_index, documents_cache, loads>>

\* lines 118-119: the test for a usable cache
CheckCache(t) ==
    /\ threads[t].pc = "line118"
    /\ Goto(t, IF bm25_index # None /\ documents_cache # None
                  /\ threads[t].where_clause = None
               THEN "line120" ELSE "line130", threads[t])
    /\ UNCHANGED <<ThreadFrame, embedding_model, bm25_index, documents_cache, loads>>

\* line 120: return _bm25_index, _documents_cache: the first global is read
ReturnCachedIndex(t) ==
    /\ threads[t].pc = "line120"
    /\ Goto(t, "line120b", [threads[t] EXCEPT !.index = bm25_index])
    /\ UNCHANGED <<ThreadFrame, embedding_model, bm25_index, documents_cache, loads>>

\* line 120: the second global is read and the pair returned
ReturnCachedDocs(t) ==
    /\ threads[t].pc = "line120b"
    /\ Goto(t, "line89", [threads[t] EXCEPT !.cache = documents_cache])
    /\ UNCHANGED <<ThreadFrame, embedding_model, bm25_index, documents_cache, loads>>

\* lines 124-183: fetch, fuzzy match, tokenize, build; a call that finds no
\* document returns (None, None) and hybrid_search returns []
Build(t) ==
    /\ threads[t].pc = "line130"
    /\ LET b == build_bm25_index(store, None, None, threads[t].trader_name,
                                 threads[t].where_clause, "ok")
       IN  IF b.index = None
           THEN Goto(t, "done", threads[t])
           ELSE Goto(t, "line186",
                     [threads[t] EXCEPT !.built = Some([index |-> b.index[1],
                                                        cache |-> b.cache[1]])])
    /\ UNCHANGED <<ThreadFrame, embedding_model, bm25_index, documents_cache, loads>>

\* line 186: _bm25_index = bm25
WriteIndex(t) ==
    /\ threads[t].pc = "line186"
    /\ bm25_index' = Some(threads[t].built[1].index)
    /\ Goto(t, "line187", threads[t])
    /\ UNCHANGED <<ThreadFrame, embedding_model, documents_cache, loads>>

\* lines 187-191: _documents_cache = {...}
WriteCache(t) ==
    /\ threads[t].pc = "line187"
    /\ documents_cache' = Some(threads[t].built[1].cache)
    /\ Goto(t, "line193", threads[t])
    /\ UNCHANGED <<ThreadFrame, embedding_model, bm25_index, loads>>

\* line 193: return bm25, _documents_cache: the local model and the global
\* cache as it is now
ReturnBuilt(t) ==
    /\ threads[t].pc = "line193"
    /\ Goto(t, "line89", [threads[t] EXCEPT !.index = Some(threads[t].built[1].index),
                                            !.cache = documents_cache])
    /\ UNCHANGED <<ThreadFrame, embedding_model, bm25_index, documents_cache, loads>>

\* line 89: if _embedding_model is None
CheckModel(t) ==
    /\ threads[t].pc = "line89"
    /\ Goto(t, IF embedding_model THEN "line94" ELSE "line91", threads[t])
    /\ UNCHANGED <<ThreadFrame, embedding_model, bm25_index, documents_cache, loads>>

\* line 91: _embedding_model = SentenceTransformer(EMBEDDING_MODEL)
LoadModel(t) ==
    /\ threads[t].pc = "line91"
    /\ loads' = loads + 1
    /\ embedding_model' = TRUE
    /\ Goto(t, "line94", threads[t])
    /\ UNCHANGED <<ThreadFrame, bm25_index, documents_cache>>

\* line 94: return _embedding_model
ReturnModel(t) ==
    /\ threads[t].pc = "line94"
    /\ Goto(t, "done", threads[t])
    /\ UNCHANGED <<ThreadFrame, embedding_model, bm25_index, documents_cache, loads>>

NextConc ==
    \/ \E t \in Threads, trader_name \in ThreadHandles : Start(t, trader_name)
    \/ \E t \in Threads : CheckCache(t)
    \/ \E t \in Threads : ReturnCachedIndex(t)
    \/ \E t \in Threads : ReturnCachedDocs(t)
    \/ \E t \in Threads : Build(t)
    \/ \E t \in Threads : WriteIndex(t)
    \/ \E t \in Threads : WriteCache(t)
    \/ \E t \in Threads : ReturnBuilt(t)
    \/ \E t \in Threads : CheckModel(t)
    \/ \E t \in Threads : LoadModel(t)
    \/ \E t \in Threads : ReturnModel(t)

SpecConc == InitConc /\ [][NextConc]_vars

(***************************************************************************)
(* The tokenizer on its own: request holds a text, response the tokens     *)
(* lines 179 and 375 make of it.                                           *)
(***************************************************************************)
\* letters of both cases, a space, a punctuation mark and an ideograph
TextChars == {"a", "B", " ", ",", "zhong"}

Texts == UNION {[1..n -> TextChars] : n \in 0..MaxText}

InitTokenize ==
    /\ store = BaseCorpus
    /\ collection = FALSE
    /\ embedding_model = FALSE
    /\ bm25_index = None
    /\ documents_cache = None
    /\ set_order = AllIds
    /\ request \in {Some([text |-> s]) : s \in Texts}
    /\ response = None
    /\ built_from = NeverBuilt
    /\ first = None
    /\ threads = <<>>
    /\ loads = 0

CallTokenize ==
    /\ request # None
    /\ response = None
    /\ response' = Some(Tokenize(request[1].text))
    /\ UNCHANGED <<store, collection, embedding_model, bm25_index,
                   documents_cache, set_order, request, built_from, first>>

NextTokenize == CallTokenize /\ UNCHANGED conc

SpecTokenize == InitTokenize /\ [][NextTokenize]_vars

(***************************************************************************)
(* Lines 406-444 of hybrid_search on their own: request holds the values   *)
(* the call has before line 406 (the lexical cache, the lexical ranking,   *)
(* the vector search's result, limit); response holds merged_doc_ids and   *)
(* the results of line 444.  The store changed a document after the cache  *)
(* was built, so the two copies of a document differ.                      *)
(***************************************************************************)
CachedCopy(id) == [document |-> <<id, " ", "a", "s", " ", "c", "a", "c", "h", "e", "d">>, metadata |-> [screen_name |-> AL, gpt_sentiment |-> POS]]
StoredCopy(id) == [document |-> <<id, " ", "a", "s", " ", "s", "t", "o", "r", "e", "d">>, metadata |-> [screen_name |-> AL, gpt_sentiment |-> NEG]]

\* the ids of a set in the collection's order
InOrder(ids) == SelectSeqBy(AllIds, {i \in DOMAIN AllIds : AllIds[i] \in ids})

CacheOf(ids) ==
    [ids |-> InOrder(ids),
     documents |-> [i \in DOMAIN InOrder(ids) |-> CachedCopy(InOrder(ids)[i]).document],
     metadatas |-> [i \in DOMAIN InOrder(ids) |-> CachedCopy(InOrder(ids)[i]).metadata]]

\* a query result for a ranked list: nearest first
VectorResultOf(l) ==
    [ids |-> [i \in DOMAIN l |-> l[i].id],
     documents |-> [i \in DOMAIN l |-> StoredCopy(l[i].id).document],
     metadatas |-> [i \in DOMAIN l |-> StoredCopy(l[i].id).metadata],
     distances |-> [i \in DOMAIN l |-> i]]

ResolveCalls ==
    { [bm25_cache |-> CacheOf(c), bm25_results |-> b, vector_results |-> VectorResultOf(v), limit |-> l] :
        c \in SUBSET RRFIds \ {{}},
        b \in RankedLists(MaxRank), v \in RankedLists(MaxRank), l \in 1..MaxLimit }

InitResolve ==
    /\ store = BaseCorpus
    /\ collection = FALSE
    /\ embedding_model = FALSE
    /\ bm25_index = None
    /\ documents_cache = None
    /\ set_order \in {AllIds, Reverse(AllIds)}
    /\ request \in {Some(c) : c \in {c \in ResolveCalls : Ids(c.bm25_results) \subseteq Range(c.bm25_cache.ids)}}
    /\ response = None
    /\ built_from = NeverBuilt
    /\ first = None
    /\ threads = <<>>
    /\ loads = 0

CallResolve ==
    /\ request # None
    /\ response = None
    /\ LET merged_doc_ids == rrf_merge(VectorScores(request[1].vector_results),
                                       request[1].bm25_results, RRF_K, set_order)
       IN  response' = Some([merged_doc_ids |-> merged_doc_ids,
                             results |-> ResolveAll(Truncate(merged_doc_ids, request[1].limit),
                                                    request[1].bm25_cache,
                                                    request[1].vector_results)])
    /\ UNCHANGED <<store, collection, embedding_model, bm25_index,
                   documents_cache, set_order, request, built_from, first>>

NextResolve == CallResolve /\ UNCHANGED conc

SpecResolve == InitResolve /\ [][NextResolve]_vars

(***************************************************************************)
(* build_where_clause on its own: request holds the arguments of one call, *)
(* response the filter it returned (None, or the filter in a one-element   *)
(* sequence).                                                              *)
(***************************************************************************)
WhereCalls ==
    [trader_name : {None, AL, BO}, asset : {None, BTC, SOL},
     sentiment : {None, POS, NEG}, is_market_related : {None, Some(TRUE), Some(FALSE)}]

InitWhere ==
    /\ store = BaseCorpus
    /\ collection = FALSE
    /\ embedding_model = FALSE
    /\ bm25_index = None
    /\ documents_cache = None
    /\ set_order = AllIds
    /\ request \in {Some(c) : c \in WhereCalls}
    /\ response = None
    /\ built_from = NeverBuilt
    /\ first = None
    /\ threads = <<>>
    /\ loads = 0

CallWhere ==
    /\ request # None
    /\ response = None
    /\ response' = Some([where_clause |->
                            build_where_clause(request[1].trader_name, request[1].asset,
                                               request[1].sentiment,
                                               request[1].is_market_related)])
    /\ UNCHANGED <<store, collection, embedding_model, bm25_index,
                   documents_cache, set_order, request, built_from, first>>

NextWhere == CallWhere /\ UNCHANGED conc

SpecWhere == InitWhere /\ [][NextWhere]_vars

(***************************************************************************)
(* Properties.  In a state where a response is waiting, request[1] is the  *)
(* request it answers and response[1].search, when present, is the trace   *)
(* of the call of hybrid_search that served it.                            *)
(***************************************************************************)
\* hybrid_search was called for the request being answered
Served == response # None /\ response[1].search # None

\* C1: after build_bm25_index has built and cached an index for a filter F, a
\* directly following call with the same F makes no fetch from the store (the
\* two calls together fetch once), even if the store changed in between.
C1_SameFilterNoRefetch ==
    (/\ Served
     /\ response[1].pre.fresh
     /\ response[1].pre.where = response[1].search[1].where_clause)
    => response[1].search[1].gets = 0

\* C2: the index build_bm25_index returns for a request with filter F was
\* built by a call for F, from a fetch scoped to F: it is never the index
\* another filter was cached for.
C2_IndexScopedToRequest ==
    (Served /\ response[1].search[1].index # None)
    => /\ built_from.where = response[1].search[1].where_clause
       /\ response[1].search[1].where_clause # None => built_from.how # "unfiltered"

\* C3: hybrid_search filters the whole fused ranking by asset and only then
\* cuts it: the returned list is the first limit elements of the
\* asset-filtered fused list.
C3_FilterThenTruncate ==
    (Served /\ ~response[1].search[1].raised)
    => response[1].search[1].results =
           Truncate(AssetStage(response[1].search[1].fused,
                               Arguments(request[1]).asset,
                               Arguments(request[1]).assets),
                    request[1].limit)

\* C10: for a positive limit, after any sequence of requests, hybrid_search
\* returns at most limit elements.
C10_AtMostLimit ==
    (Served /\ request[1].limit > 0)
    => Len(response[1].search[1].results) <= request[1].limit

\* C10's case: the fused ranking is longer than limit and the returned list
\* has been cut to exactly limit elements
C10_Witness ==
    /\ Served
    /\ Len(response[1].search[1].merged_doc_ids) > request[1].limit
    /\ Len(response[1].search[1].results) = request[1].limit
\* the ranking hybrid_search owes when only the lexical path is available:
\* the lexical ranking, resolved, filtered by asset and cut to limit
LexicalOnly ==
    LET bm25_results == response[1].search[1].bm25_results
        ids == [i \in DOMAIN bm25_results |-> bm25_results[i].id]
    IN  Truncate(AssetStage(ResolveAll(ids, documents_cache[1], NoVector),
                            Arguments(request[1]).asset,
                            Arguments(request[1]).assets),
                 request[1].limit)

\* the ranking hybrid_search owes when only the vector path is available:
\* the vector query's ranking, resolved, filtered by asset and cut to limit
VectorOnly ==
    LET v == VectorQuery(store, Embed(Arguments(request[1]).query_text),
                         request[1].limit, response[1].search[1].where_clause,
                         response[1].fail.query).vector_results[1]
    IN  Truncate(AssetStage(ResolveAll(v.ids, NoVector, v),
                            Arguments(request[1]).asset,
                            Arguments(request[1]).assets),
                 request[1].limit)

\* C4: for a non-empty query text, whatever the collaborators' failures, the
\* request ends with no exception and no server error and carries a list,
\* which is empty when both retrieval paths are down.
C4_NoServerError ==
    (response # None /\ Strip(request[1].query_text) # <<>>)
    => /\ response[1].status = 200
       /\ response[1].error_reason = ""
       /\ (response[1].fail.get = "all" /\ response[1].fail.query = "all")
              => response[1].viewpoints = <<>>

\* C5: when the vector store's query raises and the lexical index is
\* available, hybrid_search returns the ranking of the lexical path alone.
C5_VectorQueryDownLexicalOnly ==
    (/\ Served
     /\ response[1].search[1].index # None
     /\ response[1].fail.embed = "ok"
     /\ response[1].fail.query = "all")
    => /\ ~response[1].search[1].raised
       /\ response[1].search[1].results = LexicalOnly

\* C6: when the lexical index is unavailable, hybrid_search still runs the
\* vector search and returns the vector path's ranking.
C6_NoIndexVectorOnly ==
    (/\ Served
     /\ ~response[1].search[1].raised
     /\ response[1].search[1].index = None
     /\ response[1].fail.embed = "ok"
     /\ response[1].fail.query # "all")
    => /\ response[1].search[1].queries >= 1
       /\ response[1].search[1].results = VectorOnly

\* C7: when the embedder fails (on load or on encode) and the lexical index
\* is available, hybrid_search returns the lexical results.
C7_EmbedderDownLexicalOnly ==
    (/\ Served
     /\ response[1].search[1].index # None
     /\ response[1].search[1].embeds = 1
     /\ response[1].search[1].queries = 0)
    => /\ ~response[1].search[1].raised
       /\ response[1].search[1].results = LexicalOnly

\* C8: every document hybrid_search returns satisfies every predicate of the
\* request's structured filter, whichever path or fallback supplied it.
C8_ResultsSatisfyFilter ==
    Served => \A i \in DOMAIN response[1].search[1].results :
                  Matches(response[1].search[1].results[i],
                          response[1].search[1].where_clause)

\* C9: over a fixed store with working collaborators, a request repeated
\* after other requests gets the result it got the first time.
C9_RepeatSameResult ==
    (Served /\ first # None /\ first[1].data = request[1])
    => /\ response[1].search[1].raised = first[1].raised
       /\ response[1].search[1].results = first[1].results

\* C11: a request whose query text is empty after trimming is answered with
\* the empty-query error and nothing else happens: hybrid_search is not called
\* (no fetch, no embedding, no vector query), the collection is not looked
\* up, and the lexical cache is left as it was.
C11_EmptyQueryRejectedFirst ==
    [][(request # None /\ response = None /\ Strip(request[1].query_text) = <<>>)
       => /\ response' # None
          /\ response'[1].status = 400
          /\ response'[1].error_reason = "empty query"
          /\ response'[1].viewpoints = <<>>
          /\ response'[1].search = None
          /\ UNCHANGED <<store, collection, embedding_model, bm25_index,
                         documents_cache>>]_vars

\* C11's case: a blank query rejected while every collaborator would have
\* failed, with a lexical cache in place
C11_Witness ==
    /\ response # None
    /\ Strip(request[1].query_text) = <<>>
    /\ response[1].status = 400
    /\ response[1].fail.collection
    /\ response[1].fail.get = "all"
    /\ response[1].fail.embed = "encode"
    /\ response[1].fail.query = "all"
    /\ bm25_index # None

\* id is at rank 1 of a ranked list
FirstIn(list, id) == list # <<>> /\ list[1].id = id

\* fractions [n, d] with d > 0: a > b, a >= b, a + b
FracGt(a, b) == a.n * b.d > b.n * a.d
FracGeq(a, b) == a.n * b.d >= b.n * a.d
FracSum(a, b) == [n |-> a.n * b.d + b.n * a.d, d |-> a.d * b.d]

\* 1/(k + r) for the 1-based position r of id in list, 0 when it is absent
Contribution(list, k, id) ==
    IF \E r \in DOMAIN list : list[r].id = id
    THEN [n |-> 1, d |-> k + (CHOOSE r \in DOMAIN list : list[r].id = id)]
    ELSE [n |-> 0, d |-> 1]

\* the fused score the specification gives a document
FusedScore(c, id) ==
    FracSum(Contribution(c.vector_results, c.k, id),
            Contribution(c.bm25_results, c.k, id))

\* C12: in rrf_merge with two non-empty lists and k > 0, a document at rank 1
\* in both lists has a fused score strictly higher than that of any document
\* at rank 1 in only one of two non-empty lists (same k), and it comes before
\* every other document of the fused output.
C12_FirstInBothOutranks ==
    (response # None /\ request[1].vector_results # <<>> /\ request[1].bm25_results # <<>>)
    => \A id \in RRFIds :
         (FirstIn(request[1].vector_results, id) /\ FirstIn(request[1].bm25_results, id))
         => /\ \A o \in RRFCalls :
                  (o.k = request[1].k /\ o.vector_results # <<>> /\ o.bm25_results # <<>>)
                  => \A other \in RRFIds :
                        (FirstIn(o.vector_results, other) # FirstIn(o.bm25_results, other))
                        => FracGt(RRFScore(request[1].vector_results,
                                           request[1].bm25_results, request[1].k, id),
                                  RRFScore(o.vector_results, o.bm25_results, o.k, other))
            /\ response[1] # <<>>
            /\ response[1][1] = id

\* C12's case: a call with the program's k whose lists share their first
\* document and hold two more between them
C12_Witness ==
    /\ response # None
    /\ request[1].k = RRF_K
    /\ \E id \in RRFIds : /\ FirstIn(request[1].vector_results, id)
                           /\ FirstIn(request[1].bm25_results, id)
                           /\ response[1][1] = id
    /\ Len(response[1]) = 3

\* C13: rrf_merge returns exactly the ids of its two lists, each once, in
\* order of non-increasing fused score, the fused score being the sum over
\* the lists holding the id of 1/(k + position); two empty lists give an
\* empty output.
C13_FusedIdsAndOrder ==
    response # None
    => /\ Range(response[1]) =
              Ids(request[1].vector_results) \cup Ids(request[1].bm25_results)
       /\ Len(response[1]) =
              Cardinality(Ids(request[1].vector_results) \cup Ids(request[1].bm25_results))
       /\ \A i, j \in DOMAIN response[1] :
              i < j => FracGeq(FusedScore(request[1], response[1][i]),
                               FusedScore(request[1], response[1][j]))
       /\ (request[1].vector_results = <<>> /\ request[1].bm25_results = <<>>)
              => response[1] = <<>>

\* C13's case: three ids, one of them in the lexical list only, and a
\* strict drop of the fused score along the output
C13_Witness ==
    /\ response # None
    /\ Len(response[1]) = 3
    /\ Ids(request[1].bm25_results) \ Ids(request[1].vector_results) # {}
    /\ Ids(request[1].bm25_results) \cap Ids(request[1].vector_results) # {}
    /\ FracGt(FusedScore(request[1], response[1][1]),
              FusedScore(request[1], response[1][3]))

\* the asset arguments the handler passes on for the request of the state
AssetArg == StripOrNone(request[1].asset)
AssetsArg == ParseAssets(request[1].assets)

\* the sentinel is given, as the asset or among the assets
SentinelGiven ==
    \/ Truthy(AssetArg) /\ Lower(AssetArg) = BLUR
    \/ Truthy(AssetsArg) /\ \E i \in DOMAIN AssetsArg : Lower(AssetsArg[i]) = BLUR

\* the requested tickers: the assets when given, else the single asset
Requested ==
    IF Truthy(AssetsArg) THEN Range(AssetsArg)
    ELSE IF Truthy(AssetArg) THEN {AssetArg} ELSE {}

\* C14: with a non-sentinel, non-empty set of requested tickers,
\* filter_by_asset keeps a result whose asset field is a JSON array iff some
\* requested ticker equals, letter case aside, some ticker of the array.
C14_KeptIffSomeTickerMatches ==
    (response # None /\ ~SentinelGiven /\ Requested # {})
    => \A i \in DOMAIN request[1].results :
          request[1].results[i].metadata.gpt_assets.kind = "list"
          => ((\E j \in DOMAIN response[1].filtered :
                    response[1].filtered[j].id = request[1].results[i].id)
              <=> \E t \in Requested :
                     \E x \in Range(request[1].results[i].metadata.gpt_assets.items) :
                        Lower(t) = Lower(x))

\* C14's case: a result tagged ["BTC","ETH"] kept for the assets
\* ["ETH","SOL"], beside a result with an empty array that is dropped
C14_Witness ==
    /\ response # None
    /\ request[1].assets = <<ETH, SOL>>
    /\ request[1].asset = <<>>
    /\ \E i \in DOMAIN request[1].results : request[1].results[i].id = "d1"
    /\ \E i \in DOMAIN request[1].results : request[1].results[i].id = "d6"
    /\ \E j \in DOMAIN response[1].filtered : response[1].filtered[j].id = "d1"
    /\ \A j \in DOMAIN response[1].filtered : response[1].filtered[j].id # "d6"

\* C15: when neither asset nor assets is given, or the sentinel "blur" is
\* given in any letter case as the asset or among the assets, the asset
\* stage and filter_by_asset return the input list itself: same elements,
\* same order.
C15_DisabledReturnsInput ==
    (response # None /\ (SentinelGiven \/ Requested = {}))
    => /\ response[1].stage = request[1].results
       /\ response[1].filtered = request[1].results

\* C15's case: the sentinel in mixed case beside a ticker, and results that
\* the ticker would not all pass
C15_Witness ==
    /\ response # None
    /\ request[1].asset = <<"B", "l", "u", "r">>
    /\ request[1].assets = <<ETH>>
    /\ Len(request[1].results) = 3
    /\ \E i \in DOMAIN request[1].results : request[1].results[i].id = "d6"
    /\ response[1].stage = request[1].results

\* C16: for a result whose asset field is not a JSON array (malformed JSON,
\* or valid JSON of another kind), filter_by_asset keeps the result iff some
\* requested ticker occurs, letter case aside, in the raw field value.
C16_RawFallback ==
    (response # None /\ ~SentinelGiven /\ Requested # {})
    => \A i \in DOMAIN request[1].results :
          request[1].results[i].metadata.gpt_assets.kind # "list"
          => ((\E j \in DOMAIN response[1].filtered :
                    response[1].filtered[j].id = request[1].results[i].id)
              <=> \E t \in Requested :
                     IsSubstr(Upper(t),
                              Upper(request[1].results[i].metadata.gpt_assets.raw)))

\* C17: a request with asset = X and no assets gets the list a request with
\* assets = [X] and no asset gets, and the filter is off exactly when both
\* are absent or the sentinel is given.
C17_AssetAndAssetsInterchangeable ==
    response # None
    => /\ ~Truthy(AssetsArg)
          => /\ response[1].stage =
                    AssetStage(request[1].results, None,
                               ParseAssets(<<request[1].asset>>))
             /\ response[1].filtered =
                    filter_by_asset(request[1].results, None,
                                    ParseAssets(<<request[1].asset>>))
       /\ (\E i \in DOMAIN request[1].results : request[1].results[i].id = "d6")
          => (response[1].stage = request[1].results
              <=> (SentinelGiven \/ Requested = {}))

\* C17's case: a lower-case ticker given as the single asset, with a result
\* it keeps and one it drops
C17_Witness ==
    /\ response # None
    /\ request[1].asset = <<"s", "o", "l">>
    /\ request[1].assets = None
    /\ \E j \in DOMAIN response[1].stage : response[1].stage[j].id = "d3"
    /\ \E i \in DOMAIN request[1].results : request[1].results[i].id = "d6"
    /\ Len(response[1].stage) < Len(request[1].results)

\* C18: when the nearest-neighbour query made with the request's filter
\* fails, hybrid_search retries once, with the same query vector and the
\* same 2 * limit but no filter; a request never makes more than two
\* nearest-neighbour queries, and makes the second only after the first
\* failed.
C18_OneUnfilteredRetry ==
    Served
    => /\ response[1].search[1].queries <= 2
       /\ response[1].search[1].queries = 2
          => \/ response[1].fail.query = "all"
             \/ (response[1].fail.query = "where"
                 /\ response[1].search[1].where_clause # None)
       /\ (/\ response[1].search[1].queries >= 1
           /\ response[1].fail.query = "where"
           /\ response[1].search[1].where_clause # None)
          => /\ response[1].search[1].queries = 2
             /\ ~response[1].search[1].raised
             /\ response[1].search[1].vector_scores =
                    VectorScores(StoreQuery(store,
                                            Embed(Arguments(request[1]).query_text),
                                            2 * request[1].limit, None))

\* C18's case: the filtered query was rejected and the retry brought
\* neighbours the filtered query would not have brought
C18_Witness ==
    /\ Served
    /\ response[1].fail.query = "where"
    /\ response[1].search[1].where_clause # None
    /\ response[1].search[1].queries = 2
    /\ Len(response[1].search[1].vector_scores) = 2 * request[1].limit
    /\ response[1].search[1].vector_scores #
           VectorScores(StoreQuery(store, Embed(Arguments(request[1]).query_text),
                                   2 * request[1].limit,
                                   response[1].search[1].where_clause))

\* C19: in build_bm25_index for a requested handle, whenever the filtered
\* fetch fails or brings no document, the builder indexes exactly the
\* documents of an unfiltered sample whose screen_name or display_name holds
\* the handle, letter case aside, and reports no index only when there is
\* none.
C19_FuzzyFallback ==
    (/\ Served
     /\ Truthy(Arguments(request[1]).trader_name)
     /\ response[1].fail.get # "all"
     /\ \/ response[1].fail.get = "where"
        \/ StoreGet(store, response[1].search[1].where_clause).ids = <<>>)
    => IF FuzzyMatch(store, Arguments(request[1]).trader_name).ids = <<>>
       THEN response[1].search[1].index = None
       ELSE /\ response[1].search[1].index # None
            /\ documents_cache # None
            /\ documents_cache[1].ids =
                   FuzzyMatch(store, Arguments(request[1]).trader_name).ids

\* a retrieval path degraded while the request of the state was served: no
\* lexical index, an index built from a fallback fetch, a vector query
\* re-run without its filter, or a collaborator's failure
Degraded ==
    \/ response[1].search[1].raised
    \/ response[1].search[1].index = None
    \/ response[1].search[1].how = "fuzzy"
    \/ response[1].search[1].how = "unfiltered" /\ response[1].search[1].where_clause # None
    \/ response[1].search[1].queries = 2

\* C20: the response to a request served with a degraded retrieval path
\* carries a non-empty diagnostic, and the response to one served without
\* degradation an empty one.
C20_DiagnosticIffDegraded ==
    Served => (Degraded <=> response[1].error_reason # "")

\* C21: under any interleaving of concurrent first requests, the embedding
\* model is loaded at most once.
C21_ModelLoadedOnce == loads <= 1

\* build_bm25_index has returned an index to thread t
HasIndex(t) ==
    threads[t].pc \in {"line89", "line91", "line94", "done"} /\ threads[t].index # None

\* C22: under any interleaving of concurrent requests, the index and the
\* document cache build_bm25_index returns to a request come from one build,
\* made for the request's own filter: the index is the model of the cache's
\* documents, and these are the documents the filter selects.
C22_PairConsistentAndScoped ==
    \A t \in Threads :
        HasIndex(t)
        => /\ threads[t].cache # None
           /\ threads[t].index[1] =
                  BM25Okapi([i \in DOMAIN threads[t].cache[1].documents |->
                                Tokenize(threads[t].cache[1].documents[i])])
           /\ threads[t].cache[1].ids = StoreGet(store, threads[t].where_clause).ids

\* tokens joined by single spaces
RECURSIVE JoinTokens(_)
JoinTokens(tokens) ==
    IF tokens = <<>> THEN <<>>
    ELSE IF Len(tokens) = 1 THEN tokens[1]
    ELSE tokens[1] \o <<" ">> \o JoinTokens(Tail(tokens))

IsASCII(s) == \A i \in DOMAIN s : ~IsCJK(s[i])

\* C23: for an ASCII text, tokenizing the space-joined tokens of the text
\* gives the tokens of the text again, and the empty text has no token.
C23_TokenizeRoundTrip ==
    (response # None /\ IsASCII(request[1].text))
    => /\ Tokenize(JoinTokens(response[1])) = response[1]
       /\ request[1].text = <<>> => response[1] = <<>>

\* C23's case: a text of two words in mixed case parted by punctuation
C23_Witness ==
    /\ response # None
    /\ IsASCII(request[1].text)
    /\ Len(response[1]) = 2
    /\ \E i \in DOMAIN request[1].text : request[1].text[i] = ","
    /\ \E i \in DOMAIN request[1].text : request[1].text[i] = "B"
    /\ JoinTokens(response[1]) # request[1].text

\* the maximal runs of ideographs of a text, in order
RECURSIVE CJKRun(_)
CJKRun(s) == IF s # <<>> /\ IsCJK(Head(s)) THEN <<Head(s)>> \o CJKRun(Tail(s)) ELSE <<>>
RECURSIVE CJKRuns(_)
CJKRuns(s) ==
    IF s = <<>> THEN <<>>
    ELSE IF IsCJK(Head(s))
         THEN <<CJKRun(s)>> \o CJKRuns(SubSeq(s, Len(CJKRun(s)) + 1, Len(s)))
         ELSE CJKRuns(Tail(s))

\* C24: every maximal run of ideographs of a text is one token of its own,
\* also next to letters with no space between: the tokens that hold an
\* ideograph are the maximal runs of ideographs, in order.
C24_CJKRunIsOneToken ==
    response # None
    => SelectSeq(response[1], LAMBDA tok : \E i \in DOMAIN tok : IsCJK(tok[i]))
           = CJKRuns(request[1].text)

\* the call reached line 377 with an index and its documents
Ranked == Served /\ response[1].search[1].index # None /\ response[1].search[1].cache_ids # None

\* the BM25 score the call's index gives the document id for the call's query
ScoreOf(id) ==
    LET o      == response[1].search[1]
        scores == get_scores(o.index[1], Tokenize(Strip(request[1].query_text)))
        i      == CHOOSE i \in DOMAIN o.cache_ids[1] : o.cache_ids[1][i] = id
    IN  scores[i]

C26_NoFusedIdDropped ==
    response # None
    => LET merged == response[1].merged_doc_ids
           res    == response[1].results
           cached == Range(request[1].bm25_cache.ids)
       IN  /\ [i \in DOMAIN res |-> res[i].id] = merged
           /\ \A i \in DOMAIN res :
                  LET copy == IF res[i].id \in cached THEN CachedCopy(res[i].id)
                              ELSE StoredCopy(res[i].id)
                  IN  res[i].document = copy.document /\ res[i].metadata = copy.metadata

\* the metadata fields a call of build_where_clause supplies a value for
SuppliedFields ==
    (IF request[1].trader_name # None THEN {"screen_name"} ELSE {})
    \cup (IF request[1].sentiment # None THEN {"gpt_sentiment"} ELSE {})
    \cup (IF request[1].is_market_related # None THEN {"is_market_related"} ELSE {})

\* the filter has exactly one predicate on the field, for the value given
OnePredicate(parts, f) ==
    /\ Cardinality({i \in DOMAIN parts : parts[i].field = f}) = 1
    /\ \A i \in DOMAIN parts :
           parts[i].field = f
           => parts[i].value = IF f = "screen_name" THEN request[1].trader_name
                               ELSE IF f = "gpt_sentiment" THEN request[1].sentiment
                               ELSE request[1].is_market_related[1]

\* C27: build_where_clause returns no filter when none of handle, sentiment
\* and market-relevance is supplied (false counts as supplied), and else a
\* filter of exactly one equality predicate per supplied field, a conjunction
\* when there are two or more; no predicate is on the asset field, whatever
\* the asset argument.
C27_OnePredicatePerSuppliedField ==
    response # None
    => LET w == response[1].where_clause
       IN  /\ w = None <=> SuppliedFields = {}
           /\ w # None
              => /\ Len(w[1].parts) = Cardinality(SuppliedFields)
                 /\ \A f \in SuppliedFields : OnePredicate(w[1].parts, f)
                 /\ w[1].op = IF Cardinality(SuppliedFields) >= 2 THEN "and" ELSE "eq"
                 /\ \A i \in DOMAIN w[1].parts : w[1].parts[i].field # "gpt_assets"

\* C27's case: an asset is supplied along with a handle and
\* market-relevance = false
C27_Witness ==
    /\ response # None
    /\ request[1].asset # None
    /\ request[1].trader_name # None
    /\ request[1].sentiment = None
    /\ request[1].is_market_related = Some(FALSE)
    /\ response[1].where_clause # None
    /\ response[1].where_clause[1].op = "and"
    /\ Len(response[1].where_clause[1].parts) = 2

\* the scores a ranked list can carry in place of its own
ScoreValues == {1, 5}

\* the lists of the ids of list, in its order, under every choice of scores
Rescored(list) ==
    { [i \in DOMAIN list |-> [id |-> list[i].id, score |-> f[i]]] :
        f \in [DOMAIN list -> ScoreValues] }

\* C28: rrf_merge gives every document the same fused score, and returns the
\* same ranking, for any two calls whose lists hold the same ids in the same
\* order, whatever scores the lists carry.
C28_ScoresIgnored ==
    response # None
    => \A v \in Rescored(request[1].vector_results) :
         \A b \in Rescored(request[1].bm25_results) :
            /\ \A id \in RRFIds :
                   RRFScore(v, b, request[1].k, id)
                       = RRFScore(request[1].vector_results, request[1].bm25_results,
                                  request[1].k, id)
            /\ rrf_merge(v, b, request[1].k, set_order) = response[1]

\* C28's case: two lists of two documents each, one document in both, so
\* that some choice of scores runs against the order of each list
C28_Witness ==
    /\ response # None
    /\ Len(request[1].vector_results) = 2
    /\ Len(request[1].bm25_results) = 2
    /\ Len(response[1]) = 3
    /\ \E v \in Rescored(request[1].vector_results) : v[1].score < v[2].score
    /\ \E b \in Rescored(request[1].bm25_results) : b[1].score < b[2].score

\* build_bm25_index returned (None, None) in the call the response is of
NoIndexReturned ==
    /\ Served
    /\ ~response[1].search[1].raised
    /\ response[1].search[1].index = None
    /\ response[1].search[1].gets >= 1

\* C29: a call of build_bm25_index that obtains no document and returns no
\* index leaves _bm25_index and _documents_cache as they were before the
\* call, and after every call the two are both unset or both set.
C29_NoIndexLeavesCache ==
    [][(response = None /\ response' # None)
       => /\ NoIndexReturned'
             => bm25_index' = bm25_index /\ documents_cache' = documents_cache
          /\ (bm25_index' = None) <=> (documents_cache' = None)]_vars

\* C29's case: no document for the request's filter, neither exact nor by
\* the fuzzy match, while an index built by an earlier request is cached
C29_Witness ==
    /\ NoIndexReturned
    /\ response[1].pre.how # "none"
    /\ bm25_index # None
    /\ documents_cache # None

\* the 1-based position of id in the fused ranking of the call
FusedPosition(id) ==
    CHOOSE i \in DOMAIN response[1].search[1].merged_doc_ids :
        response[1].search[1].merged_doc_ids[i] = id

\* C30: the list hybrid_search returns holds only documents of the fused
\* ranking, each at most once, and in the order rrf_merge gave them.
C30_SubsequenceOfFused ==
    (Served /\ ~response[1].search[1].raised)
    => LET res == response[1].search[1].results
       IN  /\ \A i \in DOMAIN res :
                  res[i].id \in Range(response[1].search[1].merged_doc_ids)
           /\ \A i, j \in DOMAIN res :
                  i < j => FusedPosition(res[i].id) < FusedPosition(res[j].id)

\* C30's case: an asset filter at work on a fused ranking of three or more
\* documents, two of them returned
C30_Witness ==
    /\ Served
    /\ ~response[1].search[1].raised
    /\ Strip(request[1].asset) # <<>>
    /\ Len(response[1].search[1].merged_doc_ids) >= 3
    /\ Len(response[1].search[1].results) = 2

========================================================================
